---- MODULE Spec2Model ----
(***************************************************************************)
(* Model of placecal-svg-migrator: src/index.ts (the current program,      *)
(* variant "index") and src/unnamed/part_001 (its strict-square            *)
(* predecessor, variant "part_001").                                       *)
(*                                                                         *)
(* Text is a sequence of one-character strings.  A JavaScript number is    *)
(* an integer count of thousandths (12.001 is 12001), or NaN.  Arithmetic  *)
(* is exact decimal arithmetic: the binary rounding error of IEEE doubles  *)
(* is not modelled, so toFixed rounds the exact quotient, ties away from   *)
(* zero.  Inputs are drawn from texts whose numbers are whole thousandths. *)
(***************************************************************************)
EXTENDS Integers, Sequences, FiniteSets, TLC

VARIABLES
    scale,      \* SpecScale: one call of getViewBox followed by scaleParam
    file,       \* SpecFile: one call of the per-file body on one document
    dirEntries, \* Spec: what readdir returned (a set, in no order)
    contents,   \* Spec: file path -> document
    filePaths,  \* Spec: the sorted list the loop iterates
    fileIdx,    \* Spec: index of the next file of the loop
    stdout,     \* Spec: records written by console.log, in order
    stderr,     \* Spec: <<filePath, error>> written by console.error
    reads,      \* Spec: file paths handed to readFile, in order
    pc          \* Spec: "readdir" | "loop" | "done" | "halted"

vars == <<scale, file, dirEntries, contents, filePaths, fileIdx, stdout, stderr, reads, pc>>

----------------------------------------------------------------------------
(* Program constants *)

TARGET_SIZE == 24
MAX_DECIMALS == 3
PARAM_JOINER == <<",">>
SHAPE_TAGS == <<"path", "circle", "rect", "ellipse", "line", "polyline", "polygon">>

\* thousandths per unit: 10^MAX_DECIMALS
Milli == 10 ^ MAX_DECIMALS

\* the value parseFloat returns for text that is no number
NaN == 0 - 2147483647

----------------------------------------------------------------------------
(* Characters and text *)

DigitChars == <<"0", "1", "2", "3", "4", "5", "6", "7", "8", "9">>

IsDigit(c) == \E i \in 1..10 : DigitChars[i] = c

DigitVal(c) == (CHOOSE i \in 1..10 : DigitChars[i] = c) - 1

LowerLetters ==
    {"a", "b", "c", "d", "e", "f", "g", "h", "i", "j", "k", "l", "m",
     "n", "o", "p", "q", "r", "s", "t", "u", "v", "w", "x", "y", "z"}

UpperLetters ==
    {"A", "B", "C", "D", "E", "F", "G", "H", "I", "J", "K", "L", "M",
     "N", "O", "P", "Q", "R", "S", "T", "U", "V", "W", "X", "Y", "Z"}

LowerOf ==
    [c \in UpperLetters |->
        CASE c = "A" -> "a" [] c = "B" -> "b" [] c = "C" -> "c" [] c = "D" -> "d"
          [] c = "E" -> "e" [] c = "F" -> "f" [] c = "G" -> "g" [] c = "H" -> "h"
          [] c = "I" -> "i" [] c = "J" -> "j" [] c = "K" -> "k" [] c = "L" -> "l"
          [] c = "M" -> "m" [] c = "N" -> "n" [] c = "O" -> "o" [] c = "P" -> "p"
          [] c = "Q" -> "q" [] c = "R" -> "r" [] c = "S" -> "s" [] c = "T" -> "t"
          [] c = "U" -> "u" [] c = "V" -> "v" [] c = "W" -> "w" [] c = "X" -> "x"
          [] c = "Y" -> "y" [] c = "Z" -> "z"]

toLocaleLowerCase(c) == IF c \in UpperLetters THEN LowerOf[c] ELSE c

\* command.toLocaleUpperCase() !== command
IsLowerCase(c) == c \in LowerLetters

RECURSIVE Join(_, _)
\* Array.prototype.join: the texts of parts with sep between them
Join(parts, sep) ==
    IF Len(parts) = 0 THEN <<>>
    ELSE IF Len(parts) = 1 THEN parts[1]
    ELSE parts[1] \o sep \o Join(Tail(parts), sep)

RECURSIVE Flatten(_)
Flatten(parts) == IF Len(parts) = 0 THEN <<>> ELSE parts[1] \o Flatten(Tail(parts))

----------------------------------------------------------------------------
(* Numbers *)

Abs(n) == IF n < 0 THEN -n ELSE n

Min2(a, b) == IF a <= b THEN a ELSE b

Max2(a, b) == IF a >= b THEN a ELSE b

RECURSIVE Pow10(_)
Pow10(k) == IF k = 0 THEN 1 ELSE 10 * Pow10(k - 1)

\* a + b and a - b of JavaScript numbers
NumAdd(a, b) == IF a = NaN \/ b = NaN THEN NaN ELSE a + b

NumSub(a, b) == IF a = NaN \/ b = NaN THEN NaN ELSE a - b

\* RoundDiv with the digits beyond the last one cut off instead of rounded
RoundDivTruncating(num, den) ==
    LET m == Abs(num) \div den
    IN  IF num < 0 THEN -m ELSE m

\* the quotient num / den (den > 0) rounded to the nearest integer, ties away
\* from zero, as Number.prototype.toFixed rounds
RoundDiv(num, den) ==
    LET a == Abs(num)
        q == a \div den
        r == a % den
        m == IF 2 * r >= den THEN q + 1 ELSE q
    IN  IF num < 0 THEN -m ELSE m

RECURSIVE NatText(_)
NatText(n) == IF n < 10 THEN <<DigitChars[n + 1]>> ELSE NatText(n \div 10) \o <<DigitChars[(n % 10) + 1]>>

RECURSIVE PadDigits(_, _)
\* f written with exactly k digits
PadDigits(f, k) == IF k = 0 THEN <<>> ELSE PadDigits(f \div 10, k - 1) \o <<DigitChars[(f % 10) + 1]>>

RECURSIVE FracText(_, _)
\* the k digits of f / 10^k without the trailing zeros (0 < f < 10^k)
FracText(f, k) == IF f % 10 = 0 THEN FracText(f \div 10, k - 1) ELSE PadDigits(f, k)

\* Number::toString of a number of at most three decimals
NumberToString(n) ==
    IF n = NaN THEN <<"N", "a", "N">>
    ELSE LET a == Abs(n)
             sign == IF n < 0 THEN <<"-">> ELSE <<>>
             whole == NatText(a \div Milli)
             frac == a % Milli
         IN  sign \o whole \o (IF frac = 0 THEN <<>> ELSE <<".">> \o FracText(frac, MAX_DECIMALS))

\* first index >= i of s that holds no digit
RECURSIVE DigitsEnd(_, _)
DigitsEnd(s, i) == IF i <= Len(s) /\ IsDigit(s[i]) THEN DigitsEnd(s, i + 1) ELSE i

RECURSIVE DigitsValue(_)
DigitsValue(ds) == IF Len(ds) = 0 THEN 0 ELSE 10 * DigitsValue(SubSeq(ds, 1, Len(ds) - 1)) + DigitVal(ds[Len(ds)])

RECURSIVE SpacesEnd(_, _)
SpacesEnd(s, i) == IF i <= Len(s) /\ s[i] = " " THEN SpacesEnd(s, i + 1) ELSE i

\* the index past an optional sign at index a of s
SignEnd(s, a) == IF a <= Len(s) /\ s[a] \in {"-", "+"} THEN a + 1 ELSE a

\* the index past an optional decimal point at index c of s
DotEnd(s, c) == IF c <= Len(s) /\ s[c] = "." THEN c + 1 ELSE c

\* the value of the exponent digits s[f .. g - 1] behind their optional sign
ExponentValue(s, f, g) ==
    IF g <= f THEN 0
    ELSE IF s[f - 1] = "-" THEN -DigitsValue(SubSeq(s, f, g - 1))
    ELSE DigitsValue(SubSeq(s, f, g - 1))

\* the decimal exponent of an ExponentPart at index e of s, 0 without one
Exponent(s, e) ==
    LET Digits(f) == ExponentValue(s, f, DigitsEnd(s, f))
    IN  IF e <= Len(s) /\ s[e] \in {"e", "E"} THEN Digits(SignEnd(s, e + 1)) ELSE 0

\* The pieces of the longest prefix of s that is a StrDecimalLiteral:
\* sign, mantissa digits (whole and fraction together), number of fraction
\* digits, and the decimal exponent.  The sign is at a, the whole digits are
\* s[b .. c - 1] and the fraction digits s[d .. e - 1].
FloatParts(s) ==
    LET Parts(a, b, c, d, e) ==
            [valid |-> (c > b) \/ (e > d),
             neg |-> a <= Len(s) /\ s[a] = "-",
             digits |-> SubSeq(s, b, c - 1) \o SubSeq(s, d, e - 1),
             fracLen |-> e - d,
             exp |-> Exponent(s, e)]
        Fraction(a, b, c, d) == Parts(a, b, c, d, DigitsEnd(s, d))
        Point(a, b, c) == Fraction(a, b, c, DotEnd(s, c))
        Whole(a, b) == Point(a, b, DigitsEnd(s, b))
        Sign(a) == Whole(a, SignEnd(s, a))
    IN  Sign(SpacesEnd(s, 1))

\* the bound of the model's numbers: magnitudes up to MaxUnits units
MaxUnits == 80

\* the number s denotes is a whole number of thousandths within the bound
\* (or s denotes no number at all)
Representable(s) ==
    LET Fits(m, shift) ==
            IF shift >= 0
            THEN m * Pow10(shift) <= MaxUnits * Milli
            ELSE m % Pow10(-shift) = 0 /\ m \div Pow10(-shift) <= MaxUnits * Milli
        Within(p) ==
            \/ ~p.valid
            \/ /\ Len(p.digits) <= 6
               /\ p.exp - p.fracLen + MAX_DECIMALS >= -6
               /\ p.exp - p.fracLen + MAX_DECIMALS <= 5
               /\ Fits(DigitsValue(p.digits), p.exp - p.fracLen + MAX_DECIMALS)
    IN  Within(FloatParts(s))

\* parseFloat, in thousandths (of a Representable text)
parseFloat(s) ==
    LET Magnitude(m, shift) ==
            IF m = 0 THEN 0 ELSE IF shift >= 0 THEN m * Pow10(shift) ELSE m \div Pow10(-shift)
        Signed(neg, a) == IF neg THEN -a ELSE a
        Value(p) ==
            IF ~p.valid THEN NaN
            ELSE Signed(p.neg, Magnitude(DigitsValue(p.digits), p.exp - p.fracLen + MAX_DECIMALS))
    IN  Value(FloatParts(s))

----------------------------------------------------------------------------
(* Elements and attributes *)

\* what getAttribute returns for an attribute the element does not have
Undefined == <<"undefined">>

getAttribute(elem, attrib) == IF attrib \in DOMAIN elem.attrs THEN elem.attrs[attrib] ELSE Undefined

RECURSIVE SplitFrom(_, _, _)
\* String.prototype.split(/\s+/) from index i on, cur being the piece so far
SplitFrom(s, i, cur) ==
    IF i > Len(s) THEN <<cur>>
    ELSE IF s[i] = " " THEN <<cur>> \o SplitFrom(s, SpacesEnd(s, i), <<>>)
    ELSE SplitFrom(s, i + 1, Append(cur, s[i]))

SplitWhitespace(s) == SplitFrom(s, 1, <<>>)

\* the i-th number of the viewbox attribute; a missing one is undefined, which
\* behaves as NaN in arithmetic
ViewBoxNumber(tokens, i) == IF i <= Len(tokens) THEN parseFloat(tokens[i]) ELSE NaN

----------------------------------------------------------------------------
(* getViewBox *)

\* index.ts: no validation beyond presence
getViewBoxIndex(svg) ==
    LET Parsed(tokens) ==
            [ok |-> TRUE,
             x |-> ViewBoxNumber(tokens, 1), y |-> ViewBoxNumber(tokens, 2),
             w |-> ViewBoxNumber(tokens, 3), h |-> ViewBoxNumber(tokens, 4)]
    IN  IF getAttribute(svg, "viewbox") \in {Undefined, <<>>}
        THEN [ok |-> FALSE, err |-> "no viewbox found on svg elem"]
        ELSE Parsed(SplitWhitespace(getAttribute(svg, "viewbox")))

\* part_001: square within 1%, zero offset, both sides set to the longer one
getViewBoxStrict(svg) ==
    LET Square(x, y, size) == [ok |-> TRUE, x |-> x, y |-> y, w |-> size, h |-> size]
        Checked(x, y, w, h) ==
            IF 100 * Abs(w - h) > Max2(w, h)
            THEN [ok |-> FALSE, err |-> "viewbox is not square"]
            ELSE IF x # 0 \/ y # 0
            THEN [ok |-> FALSE, err |-> "viewbox has non-zero offset"]
            ELSE Square(x, y, Max2(w, h))
        Parsed(tokens) ==
            Checked(ViewBoxNumber(tokens, 1), ViewBoxNumber(tokens, 2),
                    ViewBoxNumber(tokens, 3), ViewBoxNumber(tokens, 4))
    IN  IF getAttribute(svg, "viewbox") \in {Undefined, <<>>}
        THEN [ok |-> FALSE, err |-> "no viewbox found on svg elem"]
        ELSE Parsed(SplitWhitespace(getAttribute(svg, "viewbox")))

getViewBox(svg, variant) == IF variant = "index" THEN getViewBoxIndex(svg) ELSE getViewBoxStrict(svg)

----------------------------------------------------------------------------
(* scaleParam *)

\* scaleParamIndex with the whole difference of the sides as the shift
scaleParamIndexFullShift(param, axis, viewBox) ==
    IF axis = "none" THEN param
    ELSE LET shortest == Min2(viewBox.w, viewBox.h)
             longest == Max2(viewBox.w, viewBox.h)
             axisLength == IF axis = "x" THEN viewBox.w ELSE IF axis = "y" THEN viewBox.h ELSE 0
             axisOffset == IF axis = "min" THEN 0 ELSE IF axis = "x" THEN viewBox.x ELSE viewBox.y
             scaled == param * TARGET_SIZE * Milli
             offset == axisOffset * TARGET_SIZE * Milli
             shift == IF axisLength = 0 \/ axisLength = longest THEN 0
                      ELSE (longest - shortest) * TARGET_SIZE * Milli
         IN  IF param = NaN THEN NaN ELSE RoundDiv(scaled - offset + shift, longest)

\* scaleParamIndex without the subtraction of the viewBox offset
scaleParamIndexNoOffset(param, axis, viewBox) ==
    IF axis = "none" THEN param
    ELSE LET shortest == Min2(viewBox.w, viewBox.h)
             longest == Max2(viewBox.w, viewBox.h)
             axisLength == IF axis = "x" THEN viewBox.w ELSE IF axis = "y" THEN viewBox.h ELSE 0
             scaled == param * TARGET_SIZE * Milli
             shift == IF axisLength = 0 \/ axisLength = longest THEN 0
                      ELSE ((longest - shortest) * TARGET_SIZE * Milli) \div 2
         IN  IF param = NaN THEN NaN ELSE RoundDiv(scaled + shift, longest)

\* scaleParamIndex with the min axis divided by the shorter side
scaleParamIndexMinShortest(param, axis, viewBox) ==
    IF axis = "none" THEN param
    ELSE LET shortest == Min2(viewBox.w, viewBox.h)
             longest == Max2(viewBox.w, viewBox.h)
             axisLength == IF axis = "x" THEN viewBox.w ELSE IF axis = "y" THEN viewBox.h ELSE 0
             axisOffset == IF axis = "min" THEN 0 ELSE IF axis = "x" THEN viewBox.x ELSE viewBox.y
             scaled == param * TARGET_SIZE * Milli
             offset == axisOffset * TARGET_SIZE * Milli
             shift == IF axisLength = 0 \/ axisLength = longest THEN 0
                      ELSE ((longest - shortest) * TARGET_SIZE * Milli) \div 2
         IN  IF param = NaN THEN NaN
             ELSE RoundDiv(scaled - offset + shift, IF axis = "min" THEN shortest ELSE longest)

\* axis is "x", "y", "min", or "none" (false, or undefined)
\* index.ts: scaled - offset + shift, rounded to MAX_DECIMALS decimals
scaleParamIndex(param, axis, viewBox) ==
    IF axis = "none" THEN param
    ELSE LET shortest == Min2(viewBox.w, viewBox.h)
             longest == Max2(viewBox.w, viewBox.h)
             axisLength == IF axis = "x" THEN viewBox.w ELSE IF axis = "y" THEN viewBox.h ELSE 0
             axisOffset == IF axis = "min" THEN 0 ELSE IF axis = "x" THEN viewBox.x ELSE viewBox.y
             \* numerators over the common denominator longest, in thousandths
             scaled == param * TARGET_SIZE * Milli
             offset == axisOffset * TARGET_SIZE * Milli
             shift == IF axisLength = 0 \/ axisLength = longest THEN 0
                      ELSE ((longest - shortest) * TARGET_SIZE * Milli) \div 2
         IN  IF param = NaN THEN NaN ELSE RoundDiv(scaled - offset + shift, longest)

\* part_001: param / viewBox.w * TARGET_SIZE, rounded
scaleParamStrict(param, viewBox) ==
    IF param = NaN THEN NaN ELSE RoundDiv(param * TARGET_SIZE * Milli, viewBox.w)

\* the call the loops make for a parameter whose template slot is axis
scaleParam(param, axis, viewBox, variant) ==
    IF variant = "index" THEN scaleParamIndex(param, axis, viewBox)
    ELSE IF axis = "none" THEN param ELSE scaleParamStrict(param, viewBox)

----------------------------------------------------------------------------
(* Path grammar: the command regex and parseParams *)

\* IsCommandChar of a regex whose class is [c-df-zA-Z]
IsCommandCharFromC(c, variant) ==
    IF variant = "index" THEN c \in (LowerLetters \ {"a", "b", "e"}) \cup UpperLetters
    ELSE c \in (LowerLetters \ {"a", "b"}) \cup UpperLetters

\* index.ts:   /(?<command>[a-df-zA-Z])(?<params>[0-9., e-]*)/g
\* part_001:   /(?<command>[a-zA-Z])(?<params>[0-9., -]*)/g
IsCommandChar(c, variant) ==
    IF variant = "index" THEN c \in (LowerLetters \ {"e"}) \cup UpperLetters
    ELSE c \in LowerLetters \cup UpperLetters

IsParamChar(c, variant) ==
    \/ IsDigit(c)
    \/ c \in {".", ",", " ", "-"}
    \/ (variant = "index" /\ c = "e")

RECURSIVE ParamRunEnd(_, _, _)
\* first index >= i of s that holds no parameter character
ParamRunEnd(s, i, variant) ==
    IF i <= Len(s) /\ IsParamChar(s[i], variant) THEN ParamRunEnd(s, i + 1, variant) ELSE i

RECURSIVE CommandMatchesFrom(_, _, _)
\* the matches of the command regex in s from index i on, left to right
CommandMatchesFrom(s, i, variant) ==
    IF i > Len(s) THEN <<>>
    ELSE IF IsCommandChar(s[i], variant)
    THEN LET j == ParamRunEnd(s, i + 1, variant)
         IN  <<[command |-> s[i], params |-> SubSeq(s, i + 1, j - 1)]>>
                \o CommandMatchesFrom(s, j, variant)
    ELSE CommandMatchesFrom(s, i + 1, variant)

CommandMatches(path, variant) == CommandMatchesFrom(path, 1, variant)

\* index.ts:   /(-?\d*\.?\d*(?:e-?\d+)?)/g
\* part_001:   /(-?\d*\.?\d*)/g
\* the index just past the match that starts at i (i itself: an empty match)
NumberMatchEnd(s, i, variant) ==
    LET ExponentEnd(d, g, f) ==
            IF variant = "index" /\ d <= Len(s) /\ s[d] = "e" /\ g > f THEN g ELSE d
        ExponentDigits(d, f) == ExponentEnd(d, DigitsEnd(s, f), f)
        MantissaEnd(d) ==
            ExponentDigits(d, IF d + 1 <= Len(s) /\ s[d + 1] = "-" THEN d + 2 ELSE d + 1)
        WholeEnd(b) == MantissaEnd(DigitsEnd(s, DotEnd(s, b)))
    IN  WholeEnd(DigitsEnd(s, IF i <= Len(s) /\ s[i] = "-" THEN i + 1 ELSE i))

RECURSIVE NumberTokensFrom(_, _, _)
\* the non-empty matches of the number regex; an empty match advances by one
NumberTokensFrom(s, i, variant) ==
    LET Match(e) ==
            IF e = i THEN NumberTokensFrom(s, i + 1, variant)
            ELSE <<SubSeq(s, i, e - 1)>> \o NumberTokensFrom(s, e, variant)
    IN  IF i > Len(s) THEN <<>> ELSE Match(NumberMatchEnd(s, i, variant))

NumberTokens(text, variant) == NumberTokensFrom(text, 1, variant)

\* parseParams of a text that is not undefined
parseParams(text, variant) ==
    LET Parsed(tokens) == [i \in 1..Len(tokens) |-> parseFloat(tokens[i])]
    IN  Parsed(NumberTokens(text, variant))

----------------------------------------------------------------------------
(* PATH_COMMAND_MAPPERS *)

\* index.ts: the axis of each parameter; "none" is false
PATH_COMMAND_MAPPERS_INDEX ==
    [k \in {"a", "c", "h", "l", "m", "t", "q", "s", "v", "z"} |->
        CASE k = "a" -> <<"x", "y", "none", "none", "none", "x", "y">>
          [] k = "c" -> <<"x", "y", "x", "y", "x", "y">>
          [] k = "h" -> <<"x">>
          [] k = "l" -> <<"x", "y">>
          [] k = "m" -> <<"x", "y">>
          [] k = "t" -> <<"x", "y">>
          [] k = "q" -> <<"x", "y", "x", "y">>
          [] k = "s" -> <<"x", "y", "x", "y">>
          [] k = "v" -> <<"y">>
          [] k = "z" -> <<>>]

\* part_001: whether each parameter is scaled; "scale" is true, "none" false
PATH_COMMAND_MAPPERS_STRICT ==
    [k \in {"a", "c", "h", "l", "m", "t", "q", "s", "v", "z"} |->
        CASE k = "a" -> <<"scale", "scale", "none", "none", "none", "scale", "scale">>
          [] k = "c" -> <<"scale", "scale", "scale", "scale", "scale", "scale">>
          [] k = "h" -> <<"scale">>
          [] k = "l" -> <<"scale", "scale">>
          [] k = "m" -> <<"scale", "scale">>
          [] k = "t" -> <<"scale", "scale">>
          [] k = "q" -> <<"scale", "scale", "scale", "scale">>
          [] k = "s" -> <<"scale", "scale", "scale", "scale">>
          [] k = "v" -> <<"scale">>
          [] k = "z" -> <<>>]

PATH_COMMAND_MAPPERS(variant) ==
    IF variant = "index" THEN PATH_COMMAND_MAPPERS_INDEX ELSE PATH_COMMAND_MAPPERS_STRICT

\* mapper[i % mapper.length] for the zero-based index i; for an empty mapper the
\* index is NaN and the slot undefined, which scaleParam treats as false
MapperSlot(mapper, i) == IF Len(mapper) = 0 THEN "none" ELSE mapper[(i % Len(mapper)) + 1]

----------------------------------------------------------------------------
(* The per-file body: shapes to path tokens *)

\* a thrown Error, by its message up to the first interpolation
Throw(msg) == [ok |-> FALSE, err |-> msg]

\* `${command}${params.map(scaleParam).join(PARAM_JOINER)}`
SerializeCommand(command, params, mapper, viewBox, variant) ==
    <<command>> \o
        Join([i \in 1..Len(params) |->
                NumberToString(scaleParam(params[i], MapperSlot(mapper, i - 1), viewBox, variant))],
             PARAM_JOINER)

RECURSIVE PathLoop(_, _, _, _, _)
\* the loop over commandMatches from the c-th match (one-based) on;
\* remappedPath holds the tokens pushed so far for this element
PathLoop(commandMatches, c, remappedPath, viewBox, variant) ==
    LET Step(command, key, params, mappers) ==
            IF c = 1 /\ Len(remappedPath) # 0 /\ IsLowerCase(command)
            THEN Throw("path begins with a relative command")
            ELSE IF key \notin DOMAIN mappers
            THEN Throw("unhandled command")
            ELSE IF Len(mappers[key]) # 0 /\ Len(params) % Len(mappers[key]) # 0
            THEN Throw("unexpected param count")
            ELSE PathLoop(commandMatches, c + 1,
                          Append(remappedPath,
                                 SerializeCommand(command, params, mappers[key], viewBox, variant)),
                          viewBox, variant)
    IN  IF c > Len(commandMatches) THEN [ok |-> TRUE, remappedPath |-> remappedPath]
        ELSE Step(commandMatches[c].command,
                  toLocaleLowerCase(commandMatches[c].command),
                  parseParams(commandMatches[c].params, variant),
                  PATH_COMMAND_MAPPERS(variant))

\* shapeTag === 'path'
PathShape(elem, viewBox, variant) ==
    LET path == getAttribute(elem, "d")
    IN  IF path = Undefined \/ path = <<>> THEN Throw("path elem has no d attrib")
        ELSE PathLoop(CommandMatches(path, variant), 1, <<>>, viewBox, variant)

\* getNumberAttrib: the attribute must exist; its text goes through parseFloat
HasAttrib(elem, attrib) == getAttribute(elem, attrib) # Undefined

getNumberAttrib(elem, attrib) == parseFloat(getAttribute(elem, attrib))

\* CircleShape without the 0.001 added to the end point of the arc
CircleShapeNoNudge(elem, viewBox, variant) ==
    LET Arc(cx, cy, r) ==
            [ok |-> TRUE,
             remappedPath |->
               <<<<"M">> \o Join(<<NumberToString(cx), NumberToString(NumSub(cy, r))>>, PARAM_JOINER),
                 <<"A">> \o Join(<<NumberToString(r), NumberToString(r), NumberToString(0),
                                   NumberToString(Milli), NumberToString(0),
                                   NumberToString(cx), NumberToString(NumSub(cy, r))>>,
                                 PARAM_JOINER),
                 <<"Z">> >>]
    IN  IF \E a \in {"cx", "cy", "r"} : ~HasAttrib(elem, a)
        THEN Throw("attrib does not exist on circle")
        ELSE Arc(scaleParam(getNumberAttrib(elem, "cx"), "x", viewBox, variant),
                 scaleParam(getNumberAttrib(elem, "cy"), "y", viewBox, variant),
                 scaleParam(getNumberAttrib(elem, "r"), "min", viewBox, variant))

\* shapeTag === 'circle'
CircleShape(elem, viewBox, variant) ==
    LET Arc(cx, cy, r) ==
            [ok |-> TRUE,
             remappedPath |->
               <<<<"M">> \o Join(<<NumberToString(cx), NumberToString(NumSub(cy, r))>>, PARAM_JOINER),
                 <<"A">> \o Join(<<NumberToString(r), NumberToString(r), NumberToString(0),
                                   NumberToString(Milli), NumberToString(0),
                                   NumberToString(NumAdd(cx, 1)), NumberToString(NumSub(cy, r))>>,
                                 PARAM_JOINER),
                 <<"Z">> >>]
    IN  IF \E a \in {"cx", "cy", "r"} : ~HasAttrib(elem, a)
        THEN Throw("attrib does not exist on circle")
        ELSE Arc(scaleParam(getNumberAttrib(elem, "cx"), "x", viewBox, variant),
                 scaleParam(getNumberAttrib(elem, "cy"), "y", viewBox, variant),
                 scaleParam(getNumberAttrib(elem, "r"), "min", viewBox, variant))

\* PolygonShape asking for three points where the code asks for two
PolygonShapeThreePoints(elem, viewBox, variant) ==
    LET Polygon(points) ==
            IF Len(points) < 6 \/ Len(points) % 2 # 0
            THEN Throw("unexpected points length")
            ELSE [ok |-> TRUE,
                  remappedPath |->
                    <<<<"M">> \o Join(<<NumberToString(points[1]), NumberToString(points[2])>>,
                                      PARAM_JOINER),
                      <<"L">> \o Join([i \in 1..(Len(points) - 2) |-> NumberToString(points[i + 2])],
                                      PARAM_JOINER),
                      <<"Z">> >>]
        Scaled(raw) ==
            Polygon([i \in 1..Len(raw) |->
                       scaleParam(raw[i], IF (i - 1) % 2 = 1 THEN "y" ELSE "x", viewBox, variant)])
    IN  IF getAttribute(elem, "points") = Undefined THEN Throw("params string is undefined")
        ELSE Scaled(parseParams(getAttribute(elem, "points"), variant))

\* shapeTag === 'polygon'
PolygonShape(elem, viewBox, variant) ==
    LET Polygon(points) ==
            IF Len(points) < 4 \/ Len(points) % 2 # 0
            THEN Throw("unexpected points length")
            ELSE [ok |-> TRUE,
                  remappedPath |->
                    <<<<"M">> \o Join(<<NumberToString(points[1]), NumberToString(points[2])>>,
                                      PARAM_JOINER),
                      <<"L">> \o Join([i \in 1..(Len(points) - 2) |-> NumberToString(points[i + 2])],
                                      PARAM_JOINER),
                      <<"Z">> >>]
        Scaled(raw) ==
            Polygon([i \in 1..Len(raw) |->
                       scaleParam(raw[i], IF (i - 1) % 2 = 1 THEN "y" ELSE "x", viewBox, variant)])
    IN  IF getAttribute(elem, "points") = Undefined THEN Throw("params string is undefined")
        ELSE Scaled(parseParams(getAttribute(elem, "points"), variant))

\* the body of `for (const elem of elems)` for one element
Shape(elem, viewBox, variant) ==
    IF elem.tagName = "path" THEN PathShape(elem, viewBox, variant)
    ELSE IF elem.tagName = "circle" THEN CircleShape(elem, viewBox, variant)
    ELSE IF elem.tagName = "polygon" THEN PolygonShape(elem, viewBox, variant)
    ELSE Throw("unhandled shape tag")

RECURSIVE SelectTag(_, _)
\* dom.querySelectorAll(shapeTag): the elements of that tag, in document order
SelectTag(elems, shapeTag) ==
    IF Len(elems) = 0 THEN <<>>
    ELSE (IF elems[1].tagName = shapeTag THEN <<elems[1]>> ELSE <<>>)
            \o SelectTag(Tail(elems), shapeTag)

\* VisitOrder of a single loop over all shape elements
VisitOrderDocument(elems) == elems

\* the order in which the nested loops visit the elements of the document
VisitOrder(elems) == Flatten([t \in 1..Len(SHAPE_TAGS) |-> SelectTag(elems, SHAPE_TAGS[t])])

RECURSIVE ShapeLoop(_, _, _, _)
\* the nested loops over the visited elements; remappedPaths so far
ShapeLoop(visit, remappedPaths, viewBox, variant) ==
    LET Rest(r) ==
            IF ~r.ok THEN r
            ELSE ShapeLoop(Tail(visit), Append(remappedPaths, r.remappedPath), viewBox, variant)
    IN  IF Len(visit) = 0 THEN [ok |-> TRUE, remappedPaths |-> remappedPaths]
        ELSE Rest(Shape(visit[1], viewBox, variant))

\* the value of concat when there is at most one path
Null == <<"null">>

\* paths.length > 1 ? paths.join(' ') : null
Concat(paths) == IF Len(paths) > 1 THEN Join(paths, <<" ">>) ELSE Null

\* the try block of the per-file body on the parsed document doc: the record
\* it logs, or the error it throws
FileBody(doc, variant) ==
    LET Record(paths) == [ok |-> TRUE, paths |-> paths, concat |-> Concat(paths)]
        Joined(r) ==
            IF ~r.ok THEN r
            ELSE Record([i \in 1..Len(r.remappedPaths) |-> Join(r.remappedPaths[i], <<" ">>)])
        Shapes(viewBox) ==
            IF ~viewBox.ok THEN viewBox
            ELSE Joined(ShapeLoop(VisitOrder(doc.shapes), <<>>, viewBox, variant))
    IN  IF ~doc.hasSvg THEN Throw("no svg elem found")
        ELSE Shapes(getViewBox(doc.svg, variant))

----------------------------------------------------------------------------
(* SpecScale: getViewBox, then scaleParam of one parameter *)

\* largest side of the square viewBoxes drawn
MaxSide == 54

\* largest whole coordinate drawn as a parameter
MaxCoord == 24

VARIANTS == {"index", "part_001"}

ViewBoxText(x, y, w, h) ==
    Join(<<NumberToString(x), NumberToString(y), NumberToString(w), NumberToString(h)>>, <<" ">>)

SvgElem(viewBoxText) == [tagName |-> "svg", attrs |-> [a \in {"viewbox"} |-> viewBoxText]]

RectSides == {10, 20, 24}

RectOffsets == {0, 4, -3}

ViewBoxTexts ==
    {ViewBoxText(0, 0, w * Milli, w * Milli) : w \in 1..MaxSide}
    \cup {ViewBoxText(x * Milli, y * Milli, w * Milli, h * Milli) :
            x \in RectOffsets, y \in RectOffsets, w \in RectSides, h \in RectSides}
    \cup {ViewBoxText(0, 0, 50 * Milli, 50500), ViewBoxText(0, 0, 49500, 50 * Milli),
          ViewBoxText(0, 0, 50 * Milli, 51 * Milli), ViewBoxText(0, 0, 23500, 24 * Milli),
          ViewBoxText(0, 0, 50500, 50 * Milli)}

ScaleParams ==
    {k * Milli : k \in (-2)..MaxCoord} \cup {1, 43, 500, 1500, 12345, 53 * Milli, NaN}

ScaleAxes(variant) == IF variant = "index" THEN {"x", "y", "min", "none"} ELSE {"x", "none"}

ScaleIdle == [pc |-> "idle"]

FileIdle == [pc |-> "idle"]

RunIdle ==
    /\ dirEntries = {}
    /\ contents = <<>>
    /\ filePaths = <<>>
    /\ fileIdx = 0
    /\ stdout = <<>>
    /\ stderr = <<>>
    /\ reads = <<>>
    /\ pc = "idle"

runVars == <<dirEntries, contents, filePaths, fileIdx, stdout, stderr, reads, pc>>

InitScale ==
    /\ \E variant \in VARIANTS, t \in ViewBoxTexts, param \in ScaleParams :
         \E axis \in ScaleAxes(variant) :
            scale = [pc |-> "start", variant |-> variant, svg |-> SvgElem(t),
                     param |-> param, axis |-> axis]
    /\ file = FileIdle
    /\ RunIdle

\* getViewBox returns
ScaleViewBoxOk ==
    /\ scale.pc = "start"
    /\ LET vb == getViewBox(scale.svg, scale.variant)
       IN  /\ vb.ok
           /\ scale' = [pc |-> "viewbox", variant |-> scale.variant, svg |-> scale.svg,
                        param |-> scale.param, axis |-> scale.axis, viewBox |-> vb]
    /\ UNCHANGED <<file, runVars>>

\* getViewBox throws
ScaleViewBoxThrow ==
    /\ scale.pc = "start"
    /\ LET vb == getViewBox(scale.svg, scale.variant)
       IN  /\ ~vb.ok
           /\ scale' = [pc |-> "thrown", variant |-> scale.variant, svg |-> scale.svg,
                        param |-> scale.param, axis |-> scale.axis, err |-> vb.err]
    /\ UNCHANGED <<file, runVars>>

\* scaleParam(param, axis, viewBox)
ScaleParamCall ==
    /\ scale.pc = "viewbox"
    /\ scale' = [pc |-> "scaled", variant |-> scale.variant, svg |-> scale.svg,
                 param |-> scale.param, axis |-> scale.axis, viewBox |-> scale.viewBox,
                 result |-> scaleParam(scale.param, scale.axis, scale.viewBox, scale.variant)]
    /\ UNCHANGED <<file, runVars>>

NextScale == ScaleViewBoxOk \/ ScaleViewBoxThrow \/ ScaleParamCall

SpecScale == InitScale /\ [][NextScale]_vars

----------------------------------------------------------------------------
(* SpecFile: the per-file body on one document *)

\* longest d attribute drawn character by character
MaxPathLen == 4

\* most numbers in a drawn points attribute
MaxPoints == 6

\* most elements in a drawn document of mixed shapes
MaxShapes == 3

Elem(tagName, attrs) == [tagName |-> tagName, attrs |-> attrs]

NoAttrs == [a \in {} |-> <<>>]

PathElem(d) == Elem("path", [a \in {"d"} |-> d])

PolygonElem(points) == Elem("polygon", [a \in {"points"} |-> points])

\* a circle with the attributes named in present
CircleElem(cx, cy, r, present) ==
    Elem("circle", [a \in present |-> IF a = "cx" THEN cx ELSE IF a = "cy" THEN cy ELSE r])

Doc(viewBoxText, shapes) == [hasSvg |-> TRUE, svg |-> SvgElem(viewBoxText), shapes |-> shapes]

DocNoSvg == [hasSvg |-> FALSE, shapes |-> <<>>]

DocNoViewBox == [hasSvg |-> TRUE, svg |-> Elem("svg", NoAttrs), shapes |-> <<>>]

AllSeqs(S, n) == UNION {[1..k -> S] : k \in 0..n}

\* every number token of the d attribute is a number of the model
PathRepresentable(d, variant) ==
    LET ms == CommandMatches(d, variant)
    IN  \A c \in 1..Len(ms) :
            LET tokens == NumberTokens(ms[c].params, variant)
            IN  \A i \in 1..Len(tokens) : Representable(tokens[i])

PathChars == {"M", "h", "z", "b", "e", "1", ".", "-"}

NamedPathTexts ==
    { <<"m", "1", "0", " ", "1", "0", " ", "l", "5", " ", "5">>,
      <<"M", "1", "0", " ", "1", "0", " ", "l", "5", " ", "5">>,
      <<"b", "1", "0", ",", "1", "0">>,
      <<"M", "0", ",", "0", " ", "z", "5">>,
      <<"M", "0", ",", "0", " ", "L", "2", "4", ",", "0", " ", "Z">>,
      <<"M", "1", ".", "5", ".", "5", "-", "2", "-", "3", "E", "1">>,
      <<"M", "1", "e", "1", ",", "2", "e", "-", "1", "H", "3">>,
      <<"M", "2", " ", "2", "a", "1", " ", "1", " ", "0", " ", "1", " ", "0", " ", "4", " ", "4">>,
      <<"M", "1", ",", "2", ",", "3">>,
      <<"M", "1", " ", "b">> }

\* the viewBox that is the target frame already
TargetViewBoxText == ViewBoxText(0, 0, TARGET_SIZE * Milli, TARGET_SIZE * Milli)

PathViewBoxTexts == {TargetViewBoxText, ViewBoxText(4 * Milli, -3 * Milli, 24 * Milli, 48 * Milli)}

ShapeViewBoxTexts ==
    {ViewBoxText(0, 0, 24 * Milli, 24 * Milli), ViewBoxText(0, 0, 48 * Milli, 48 * Milli),
     ViewBoxText(0, 0, 10 * Milli, 20 * Milli)}

RECURSIVE PointsText(_)
\* numbers written the way a points attribute is: "x,y x,y ..."
PointsText(ns) ==
    IF Len(ns) = 0 THEN <<>>
    ELSE IF Len(ns) = 1 THEN NumberToString(ns[1])
    ELSE NumberToString(ns[1]) \o (IF Len(ns) % 2 = 0 THEN <<",">> ELSE <<" ">>) \o PointsText(Tail(ns))

PointCoords == {0, 24 * Milli, 7500}

CircleTexts == {<<"1", "2">>, <<"6">>, <<"0", ".", "5">>, <<"-", "1">>, <<"x">>}

MixedElems ==
    { CircleElem(<<"1", "2">>, <<"1", "2">>, <<"6">>, {"cx", "cy", "r"}),
      CircleElem(<<"5">>, <<"5">>, <<"2">>, {"cx", "cy"}),
      PathElem(<<"M", "1", "0", " ", "1", "0", " ", "l", "5", " ", "5">>),
      PathElem(<<"m", "1", "0", " ", "1", "0", " ", "l", "5", " ", "5">>),
      PathElem(<<"M", "0", ",", "0", " ", "H", "4", "Z">>),
      PolygonElem(<<"0", ",", "0", " ", "2", "4", ",", "0", " ", "2", "4", ",", "2", "4", " ", "0", ",", "2", "4">>),
      PolygonElem(<<"0", ",", "0", " ", "2", "4">>),
      Elem("rect", NoAttrs) }

\* every d attribute of the document holds numbers of the model only
DocRepresentable(doc, variant) ==
    \A i \in 1..Len(doc.shapes) :
        (doc.shapes[i].tagName = "path" /\ HasAttrib(doc.shapes[i], "d")) =>
            PathRepresentable(getAttribute(doc.shapes[i], "d"), variant)

FileStart(variant, doc) ==
    /\ DocRepresentable(doc, variant)
    /\ file = [pc |-> "start", variant |-> variant, doc |-> doc]

\* the documents drawn: one path, one polygon, one circle, a mix of shapes,
\* and the documents without an svg element or without a viewbox
InitFile ==
    /\ \E variant \in VARIANTS :
         \/ \E k \in 1..MaxPathLen : \E d \in [1..k -> PathChars] :
               FileStart(variant, Doc(TargetViewBoxText, <<PathElem(d)>>))
         \/ \E t \in PathViewBoxTexts \cup ShapeViewBoxTexts, d \in NamedPathTexts :
               FileStart(variant, Doc(t, <<PathElem(d)>>))
         \/ \E t \in ShapeViewBoxTexts, k \in 0..MaxPoints : \E ns \in [1..k -> PointCoords] :
               FileStart(variant, Doc(t, <<PolygonElem(PointsText(ns))>>))
         \/ \E t \in ShapeViewBoxTexts : FileStart(variant, Doc(t, <<Elem("polygon", NoAttrs)>>))
         \/ \E t \in ShapeViewBoxTexts, cx \in CircleTexts, cy \in CircleTexts, r \in CircleTexts :
               FileStart(variant, Doc(t, <<CircleElem(cx, cy, r, {"cx", "cy", "r"})>>))
         \/ \E t \in ShapeViewBoxTexts, present \in SUBSET {"cx", "cy", "r"} :
               FileStart(variant, Doc(t, <<CircleElem(<<"1", "2">>, <<"1", "2">>, <<"6">>, present)>>))
         \/ \E t \in ShapeViewBoxTexts, k \in 0..MaxShapes : \E shapes \in [1..k -> MixedElems] :
               FileStart(variant, Doc(t, shapes))
         \/ \E doc \in {DocNoSvg, DocNoViewBox} : FileStart(variant, doc)
    /\ scale = ScaleIdle
    /\ RunIdle

\* the body reaches console.log
FileLog ==
    /\ file.pc = "start"
    /\ LET r == FileBody(file.doc, file.variant)
       IN  /\ r.ok
           /\ file' = [pc |-> "logged", variant |-> file.variant, doc |-> file.doc,
                       paths |-> r.paths, concat |-> r.concat]
    /\ UNCHANGED <<scale, runVars>>

\* the body throws: the catch block logs the error and throws it again
FileThrow ==
    /\ file.pc = "start"
    /\ LET r == FileBody(file.doc, file.variant)
       IN  /\ ~r.ok
           /\ file' = [pc |-> "thrown", variant |-> file.variant, doc |-> file.doc, err |-> r.err]
    /\ UNCHANGED <<scale, runVars>>

NextFile == FileLog \/ FileThrow

SpecFile == InitFile /\ [][NextFile]_vars

----------------------------------------------------------------------------
(* Spec: the directory run of index.ts *)

\* most entries in the directory
MaxEntries == 3

\* the directory given on the command line, as the first element of every path
SOURCE_DIR == "../PlaceCal/app/assets/images/icons/"

\* join(parentPath, name)
JoinPath(name) == <<SOURCE_DIR>> \o name

SKIPS ==
    { JoinPath(<<"a", "r", "r", "o", "w", "/", "r", "i", "g", "h", "t", ".", "s", "v", "g">>),
      JoinPath(<<"m", "e", "n", "u", ".", "s", "v", "g">>) }

\* RENAMES.get(base), or Undefined
RENAMES(base) ==
    IF base = <<"t", "i", "c", "k", "e", "d">>
    THEN <<"c", "h", "e", "c", "k", "b", "o", "x", "_", "c", "h", "e", "c", "k">>
    ELSE IF base = <<"m", "e", "n", "u", "2">> THEN <<"m", "e", "n", "u">>
    ELSE Undefined

\* the characters of the drawn names in ascending order of their code units
CodeUnitOrder ==
    <<"-", ".", "0", "1", "2", "3", "4", "5", "6", "7", "8", "9",
      "A", "B", "C", "D", "E", "F", "G", "H", "I", "J", "K", "L", "M",
      "N", "O", "P", "Q", "R", "S", "T", "U", "V", "W", "X", "Y", "Z", "_",
      "a", "b", "c", "d", "e", "f", "g", "h", "i", "j", "k", "l", "m",
      "n", "o", "p", "q", "r", "s", "t", "u", "v", "w", "x", "y", "z">>

CodeUnit(c) == CHOOSE i \in 1..Len(CodeUnitOrder) : CodeUnitOrder[i] = c

RECURSIVE NameLess(_, _)
\* a < b for two names, compared code unit by code unit
NameLess(a, b) ==
    IF Len(b) = 0 THEN FALSE
    ELSE IF Len(a) = 0 THEN TRUE
    ELSE IF a[1] = b[1] THEN NameLess(Tail(a), Tail(b))
    ELSE CodeUnit(a[1]) < CodeUnit(b[1])

\* a < b for two paths of the source directory
PathLess(a, b) == NameLess(Tail(a), Tail(b))

RECURSIVE toSorted(_)
\* Array.prototype.toSorted() of a set of distinct paths
toSorted(paths) ==
    IF paths = {} THEN <<>>
    ELSE LET least == CHOOSE p \in paths : \A q \in paths \ {p} : PathLess(p, q)
         IN  <<least>> \o toSorted(paths \ {least})

\* name.toLocaleLowerCase().endsWith('.svg')
EndsWithSvg(name) ==
    /\ Len(name) >= 4
    /\ [i \in 1..4 |-> toLocaleLowerCase(name[Len(name) - 4 + i])] = <<".", "s", "v", "g">>

\* basename(filePath).replace(/\.svg$/i, '')
BaseName(filePath) ==
    LET name == Tail(filePath)
    IN  IF EndsWithSvg(name) THEN SubSeq(name, 1, Len(name) - 4) ELSE name

\* RENAMES.get(base) ?? base.replaceAll('-', '_')
IconName(filePath) ==
    LET base == BaseName(filePath)
    IN  IF RENAMES(base) # Undefined THEN RENAMES(base)
        ELSE [i \in 1..Len(base) |-> IF base[i] = "-" THEN "_" ELSE base[i]]

\* the entries the directory may hold: name and whether it is a file
Entries ==
    { [name |-> <<"m", "e", "n", "u", ".", "s", "v", "g">>, isFile |-> TRUE],
      [name |-> <<"m", "e", "n", "u", "2", ".", "s", "v", "g">>, isFile |-> TRUE],
      [name |-> <<"a", "-", "b", ".", "s", "v", "g">>, isFile |-> TRUE],
      [name |-> <<"a", ".", "s", "v", "g">>, isFile |-> TRUE],
      [name |-> <<"Z", ".", "S", "V", "G">>, isFile |-> TRUE],
      [name |-> <<"n", "o", "t", "e", ".", "m", "d">>, isFile |-> TRUE],
      [name |-> <<"d", "i", "r", ".", "s", "v", "g">>, isFile |-> FALSE] }

\* the documents the files of the directory may hold
RunDocs ==
    { Doc(TargetViewBoxText, <<CircleElem(<<"1", "2">>, <<"1", "2">>, <<"6">>, {"cx", "cy", "r"})>>),
      Doc(TargetViewBoxText,
          <<CircleElem(<<"1", "2">>, <<"1", "2">>, <<"6">>, {"cx", "cy", "r"}),
            PathElem(<<"M", "0", ",", "0", " ", "H", "4", "Z">>)>>),
      Doc(TargetViewBoxText, <<Elem("rect", NoAttrs)>>),
      DocNoSvg }

\* the paths the loop is to iterate: files named *.svg, joined and sorted
ListedPaths(entries) ==
    toSorted({JoinPath(e.name) : e \in {x \in entries : x.isFile /\ EndsWithSvg(x.name)}})

Init ==
    /\ \E entries \in SUBSET Entries :
         /\ Cardinality(entries) <= MaxEntries
         /\ dirEntries = entries
         /\ contents \in [{JoinPath(e.name) : e \in {x \in entries : x.isFile}} -> RunDocs]
    /\ filePaths = <<>>
    /\ fileIdx = 0
    /\ stdout = <<>>
    /\ stderr = <<>>
    /\ reads = <<>>
    /\ pc = "readdir"
    /\ scale = ScaleIdle
    /\ file = FileIdle

\* pc after the loop body returned for the file at fileIdx
AfterFile == IF fileIdx + 1 > Len(filePaths) THEN "done" ELSE "loop"

\* readdir, filter, map, toSorted
ReadDir ==
    /\ pc = "readdir"
    /\ filePaths' = ListedPaths(dirEntries)
    /\ fileIdx' = 1
    /\ pc' = IF Len(ListedPaths(dirEntries)) = 0 THEN "done" ELSE "loop"
    /\ UNCHANGED <<scale, file, dirEntries, contents, stdout, stderr, reads>>

\* processFile of a path in SKIPS: returns at once
ProcessFileSkip ==
    /\ pc = "loop"
    /\ filePaths[fileIdx] \in SKIPS
    /\ fileIdx' = fileIdx + 1
    /\ pc' = AfterFile
    /\ UNCHANGED <<scale, file, dirEntries, contents, filePaths, stdout, stderr, reads>>

\* processFile reaches console.log
ProcessFileLog ==
    /\ pc = "loop"
    /\ filePaths[fileIdx] \notin SKIPS
    /\ LET filePath == filePaths[fileIdx]
           r == FileBody(contents[filePath], "index")
       IN  /\ r.ok
           /\ reads' = Append(reads, filePath)
           /\ stdout' = Append(stdout, [iconName |-> IconName(filePath), paths |-> r.paths,
                                        concat |-> r.concat])
    /\ fileIdx' = fileIdx + 1
    /\ pc' = AfterFile
    /\ UNCHANGED <<scale, file, dirEntries, contents, filePaths, stderr>>

\* ProcessFileThrow with a catch block that does not throw the error again
ProcessFileThrowSwallowed ==
    /\ pc = "loop"
    /\ filePaths[fileIdx] \notin SKIPS
    /\ LET filePath == filePaths[fileIdx]
           r == FileBody(contents[filePath], "index")
       IN  /\ ~r.ok
           /\ reads' = Append(reads, filePath)
           /\ stderr' = Append(stderr, <<filePath, r.err>>)
    /\ fileIdx' = fileIdx + 1
    /\ pc' = AfterFile
    /\ UNCHANGED <<scale, file, dirEntries, contents, filePaths, stdout>>

\* processFile throws: the catch block logs the path and the error and throws
\* it again; the awaiting loop ends with it
ProcessFileThrow ==
    /\ pc = "loop"
    /\ filePaths[fileIdx] \notin SKIPS
    /\ LET filePath == filePaths[fileIdx]
           r == FileBody(contents[filePath], "index")
       IN  /\ ~r.ok
           /\ reads' = Append(reads, filePath)
           /\ stderr' = Append(stderr, <<filePath, r.err>>)
    /\ pc' = "halted"
    /\ UNCHANGED <<scale, file, dirEntries, contents, filePaths, fileIdx, stdout>>

Next == ReadDir \/ ProcessFileSkip \/ ProcessFileLog \/ ProcessFileThrow

Spec == Init /\ [][Next]_vars

----------------------------------------------------------------------------
(* Claims about scaleParam and getViewBox *)

\* the numbers of the viewbox attribute as written, before any validation
RawViewBox(svg) == getViewBoxIndex(svg)

ScaleIsSquareAtOrigin(svg) ==
    LET raw == RawViewBox(svg)
    IN  raw.x = 0 /\ raw.y = 0 /\ raw.w = raw.h /\ raw.w > 0

\* |v' * w - TARGET_SIZE * v| in millionths of a unit, for the scaled state
ScaleInverseError ==
    Abs(scale.result * scale.viewBox.w - TARGET_SIZE * Milli * scale.param)

ScaleSquareCase ==
    /\ scale.pc = "scaled"
    /\ scale.axis \in {"x", "y"}
    /\ scale.param # NaN
    /\ ScaleIsSquareAtOrigin(scale.svg)

\* C3 as stated: for every square viewBox (0,0,w,w) and every value v, scaling
\* and then scaling back (v' * w / 24) recovers v within 0.001, for every w.
C3_InverseWithinThousandth ==
    ScaleSquareCase => ScaleInverseError <= TARGET_SIZE * Milli

\* C3 amended: the scaled value is within half a thousandth of v / w * 24, so
\* scaling back recovers v within w / 48 thousandths: within 0.001 when w <= 48.
C3_InverseWithinScaledHalfThousandth ==
    ScaleSquareCase =>
        /\ 2 * ScaleInverseError <= scale.viewBox.w
        /\ (scale.viewBox.w <= 2 * TARGET_SIZE * Milli => ScaleInverseError <= TARGET_SIZE * Milli)

\* C3 witness: a square viewBox no wider than 48 whose scaling had to round
C3_Witness ==
    /\ ScaleSquareCase
    /\ scale.viewBox.w <= 2 * TARGET_SIZE * Milli
    /\ scale.viewBox.w > TARGET_SIZE * Milli
    /\ ScaleInverseError > 0

ScaleTallAtOrigin(svg) ==
    LET raw == RawViewBox(svg)
    IN  raw.x = 0 /\ raw.y = 0 /\ raw.w > 0 /\ raw.w < raw.h

ScaleNotSquareWithinTolerance(svg) ==
    LET raw == RawViewBox(svg)
    IN  100 * Abs(raw.w - raw.h) > Max2(raw.w, raw.h)

\* centering mode on a viewBox (0,0,w,h) with w < h: an x value v becomes
\* round(v/h*24 + (h-w)/h*12, 3), a y value round(v/h*24, 3), and the images of
\* x = 0 and x = w lie symmetrically around 12 (to the last digit)
ScaleCenteringOfTall ==
    (scale.pc = "scaled" /\ scale.variant = "index" /\ scale.param # NaN
        /\ ScaleTallAtOrigin(scale.svg)) =>
        LET w == scale.viewBox.w
            h == scale.viewBox.h
            v == scale.param
            lo == scaleParam(0, "x", scale.viewBox, "index")
            hi == scaleParam(w, "x", scale.viewBox, "index")
        IN  /\ scale.axis = "x" =>
                scale.result = RoundDiv(v * 24 * Milli + (h - w) * 12 * Milli, h)
            /\ scale.axis = "y" => scale.result = RoundDiv(v * 24 * Milli, h)
            /\ lo >= 0 /\ lo < hi
            /\ Abs((lo + hi) - TARGET_SIZE * Milli) <= 1
            /\ (w = 10 * Milli /\ h = 20 * Milli) => (lo = 6 * Milli /\ hi = 18 * Milli)

\* C2 as stated: centering mode shifts the x values of a viewBox (0,0,w,h),
\* w < h, to centre them, and strict-square mode rejects every such viewBox with
\* the non-square error before anything is scaled.
C2_CenteredOrRejected ==
    /\ ScaleCenteringOfTall
    /\ (scale.variant = "part_001" /\ scale.pc # "start" /\ ScaleTallAtOrigin(scale.svg)) =>
          (scale.pc = "thrown" /\ scale.err = "viewbox is not square")

\* C2 amended: strict-square mode rejects the viewBox with the non-square error
\* exactly when its sides differ by more than 1% of the longer one; a viewBox
\* within that tolerance is accepted as the square of the longer side.
C2_CenteredOrRejectedBeyondTolerance ==
    /\ ScaleCenteringOfTall
    /\ (scale.variant = "part_001" /\ scale.pc # "start" /\ ScaleTallAtOrigin(scale.svg)) =>
          IF ScaleNotSquareWithinTolerance(scale.svg)
          THEN scale.pc = "thrown" /\ scale.err = "viewbox is not square"
          ELSE /\ scale.pc \in {"viewbox", "scaled"}
               /\ scale.viewBox.w = RawViewBox(scale.svg).h
               /\ scale.viewBox.h = RawViewBox(scale.svg).h

\* C2 witness: an x value of the viewBox (0,0,10,20) scaled in centering mode
C2_Witness ==
    /\ scale.pc = "scaled" /\ scale.variant = "index" /\ scale.axis = "x"
    /\ scale.viewBox = [ok |-> TRUE, x |-> 0, y |-> 0, w |-> 10 * Milli, h |-> 20 * Milli]
    /\ scale.param = 10 * Milli
    /\ scale.result = 18 * Milli

\* a min-axis value scaled in centering mode in a viewBox of positive sides
ScaleMinCase ==
    /\ scale.pc = "scaled"
    /\ scale.variant = "index"
    /\ scale.axis = "min"
    /\ scale.param # NaN
    /\ scale.viewBox.w > 0 /\ scale.viewBox.h > 0

\* the result does not change when the offsets of the viewBox are set to zero
ScaleMinIgnoresOffset ==
    scale.result =
        scaleParam(scale.param, "min", [scale.viewBox EXCEPT !.x = 0, !.y = 0], "index")

\* C11 as stated: a min-axis value r is scaled by the shorter side of the
\* viewBox, scaleParam(r, 'min') = round(r / min(w,h) * 24, 3), whatever x and
\* y are.
C11_MinAxisScaledByShorterSide ==
    ScaleMinCase =>
        /\ scale.result =
              RoundDiv(scale.param * TARGET_SIZE * Milli, Min2(scale.viewBox.w, scale.viewBox.h))
        /\ ScaleMinIgnoresOffset

\* C11 amended: a min-axis value r is scaled by the longer side of the viewBox,
\* like every other scaled value, scaleParam(r, 'min') = round(r / max(w,h) *
\* 24, 3), with no offset and no shift, whatever x and y are.
C11_MinAxisScaledByLongerSide ==
    ScaleMinCase =>
        /\ scale.result =
              RoundDiv(scale.param * TARGET_SIZE * Milli, Max2(scale.viewBox.w, scale.viewBox.h))
        /\ ScaleMinIgnoresOffset

\* C11 witness: r = 5 in the viewBox (4,-3,10,20) scaled to 6
C11_Witness ==
    /\ ScaleMinCase
    /\ scale.viewBox = [ok |-> TRUE, x |-> 4 * Milli, y |-> -3 * Milli,
                        w |-> 10 * Milli, h |-> 20 * Milli]
    /\ scale.param = 5 * Milli
    /\ scale.result = 6 * Milli

\* the offset and the length of the viewBox along the axis of the scaled state
ScaleAxisOffset == IF scale.axis = "x" THEN scale.viewBox.x ELSE scale.viewBox.y

ScaleAxisLength == IF scale.axis = "x" THEN scale.viewBox.w ELSE scale.viewBox.h

ScaleLongest == Max2(scale.viewBox.w, scale.viewBox.h)

\* an x or y value inside the source frame scaled in centering mode
ScaleFrameCase ==
    /\ scale.pc = "scaled"
    /\ scale.variant = "index"
    /\ scale.axis \in {"x", "y"}
    /\ scale.param # NaN
    /\ scale.viewBox.w > 0 /\ scale.viewBox.h > 0
    /\ scale.param >= ScaleAxisOffset
    /\ scale.param <= ScaleAxisOffset + ScaleAxisLength

\* the centering shift of the axis of the scaled state, times ScaleLongest:
\* (longest - length) / longest * 24 / 2
ScaleShiftNumerator == (ScaleLongest - ScaleAxisLength) * (TARGET_SIZE \div 2) * Milli

\* C13: in centering mode, for every viewBox (x0,y0,w,h) of positive sides, an
\* x value in [x0, x0+w] and a y value in [y0, y0+h] scale into [0, 24]; the
\* corner (x0,y0) maps to the shift of its axis and the opposite corner to 24
\* minus that shift (each rounded to 3 decimals), so the output frame has zero
\* offset and the content is centred.
C13_OutputFrame ==
    ScaleFrameCase =>
        LET lo == scaleParam(ScaleAxisOffset, scale.axis, scale.viewBox, "index")
            hi == scaleParam(ScaleAxisOffset + ScaleAxisLength, scale.axis, scale.viewBox, "index")
        IN  /\ scale.result >= 0
            /\ scale.result <= TARGET_SIZE * Milli
            /\ lo <= scale.result /\ scale.result <= hi
            /\ lo = RoundDiv(ScaleShiftNumerator, ScaleLongest)
            /\ hi = RoundDiv(TARGET_SIZE * Milli * ScaleLongest - ScaleShiftNumerator, ScaleLongest)
            /\ Abs((lo + hi) - TARGET_SIZE * Milli) <= 1
            /\ (ScaleAxisLength = ScaleLongest) => (lo = 0 /\ hi = TARGET_SIZE * Milli)

\* C13 witness: the corner x0 + w = 14 of the viewBox (4,-3,10,20) scaled to
\* 24 - 6 = 18
C13_Witness ==
    /\ ScaleFrameCase
    /\ scale.axis = "x"
    /\ scale.viewBox = [ok |-> TRUE, x |-> 4 * Milli, y |-> -3 * Milli,
                        w |-> 10 * Milli, h |-> 20 * Milli]
    /\ scale.param = 14 * Milli
    /\ scale.result = 18 * Milli

\* a second case of C13: a shift that is no whole number of thousandths
C13_WitnessRoundedShift ==
    /\ ScaleFrameCase
    /\ scale.axis = "x"
    /\ scale.viewBox.w = 50 * Milli /\ scale.viewBox.h = 50500
    /\ scale.param = 0
    /\ scale.result = 119

----------------------------------------------------------------------------
(* Claims about the per-file body *)

FileViewBoxOk == file.doc.hasSvg /\ getViewBox(file.doc.svg, file.variant).ok

FileViewBox == getViewBox(file.doc.svg, file.variant)

\* the document holds exactly one shape, of the given tag
FileSingle(tagName) ==
    /\ file.pc # "idle"
    /\ Len(file.doc.shapes) = 1
    /\ file.doc.shapes[1].tagName = tagName

FileSinglePath == FileSingle("path") /\ HasAttrib(file.doc.shapes[1], "d")

FileD == getAttribute(file.doc.shapes[1], "d")

MapperKeys == {"a", "c", "h", "l", "m", "q", "s", "t", "v", "z"}

\* the first command token of the d attribute is a lowercase letter
StartsRelative(d, variant) ==
    LET ms == CommandMatches(d, variant)
    IN  Len(ms) > 0 /\ ms[1].command \in LowerLetters

\* C1: a path whose first command token is lowercase makes the file fail with
\* the relative-start error, so no emitted record holds a path entry that
\* begins with a lowercase command letter.
C1_RelativeStartRejected ==
    (file.pc # "idle" /\ file.pc # "start") =>
        \A i \in 1..Len(file.doc.shapes) :
            LET elem == file.doc.shapes[i]
            IN  (elem.tagName = "path" /\ HasAttrib(elem, "d")
                    /\ StartsRelative(getAttribute(elem, "d"), file.variant)) =>
                    file.pc = "thrown"

\* a letter of the d text that has no entry in PATH_COMMAND_MAPPERS
HasLetterWithoutMapper(d) ==
    \E i \in 1..Len(d) :
        /\ d[i] \in LowerLetters \cup UpperLetters
        /\ toLocaleLowerCase(d[i]) \notin MapperKeys

\* C4 as stated: a d string that contains any letter without a mapper entry
\* fails with the unknown-command error, whatever the viewBox and the mode.
C4_UnknownLetterRejected ==
    (FileSinglePath /\ file.pc # "start" /\ HasLetterWithoutMapper(FileD)) =>
        (file.pc = "thrown" /\ file.err = "unhandled command")

\* the letters the mode's command regex reads as commands: every letter in
\* part_001, every letter but lowercase e in index.ts
ReadAsCommand(c, variant) ==
    c \in LowerLetters \cup UpperLetters /\ ~(variant = "index" /\ c = "e")

\* index of the first character of d that is read as a command and has no
\* mapper entry, or 0
FirstUnknownCommand(d, variant) ==
    LET hits == {i \in 1..Len(d) :
                    ReadAsCommand(d[i], variant) /\ toLocaleLowerCase(d[i]) \notin MapperKeys}
    IN  IF hits = {} THEN 0 ELSE CHOOSE i \in hits : \A j \in hits : i <= j

\* the parameter count of some known command of the text is no multiple of its
\* template length
HasCountMismatch(d, variant) ==
    LET ms == CommandMatches(d, variant)
    IN  \E c \in 1..Len(ms) :
            LET key == toLocaleLowerCase(ms[c].command)
                n == Len(NumberTokens(ms[c].params, variant))
            IN  /\ key \in MapperKeys
                /\ Len(PATH_COMMAND_MAPPERS(variant)[key]) # 0
                /\ n % Len(PATH_COMMAND_MAPPERS(variant)[key]) # 0

\* C4 amended: a letter without a mapper entry that the command regex reads as a
\* command (any letter but lowercase e in index.ts, any letter in part_001)
\* makes the file fail and no record is emitted; the error is the
\* unknown-command error unless the viewBox was refused or an earlier command
\* of the path had a parameter-count mismatch.  In index.ts a lowercase e is a
\* parameter character and never raises the unknown-command error.
C4_UnknownCommandRejected ==
    (FileSinglePath /\ file.pc # "start") =>
        LET k == FirstUnknownCommand(FileD, file.variant)
        IN  /\ k # 0 => file.pc = "thrown"
            /\ (k # 0 /\ FileViewBoxOk) =>
                  IF HasCountMismatch(SubSeq(FileD, 1, k - 1), file.variant)
                  THEN file.err = "unexpected param count"
                  ELSE file.err = "unhandled command"
            /\ (k = 0 /\ file.pc = "thrown") => file.err # "unhandled command"

\* C4 witness: `b10,10` was refused in centering mode as an unknown command
C4_Witness ==
    /\ FileSinglePath /\ file.pc = "thrown" /\ file.variant = "index"
    /\ FileD = <<"b", "1", "0", ",", "1", "0">>
    /\ file.err = "unhandled command"

\* C5: a command occurrence is accepted only with a parameter count that is a
\* multiple of its template length, and a zero-arity command (z) only with no
\* parameter at all.
C5_ParamCountMultipleOfArity ==
    (FileSinglePath /\ file.pc = "logged") =>
        LET ms == CommandMatches(FileD, file.variant)
        IN  \A c \in 1..Len(ms) :
                LET mapper == PATH_COMMAND_MAPPERS(file.variant)[toLocaleLowerCase(ms[c].command)]
                    n == Len(NumberTokens(ms[c].params, file.variant))
                IN  IF Len(mapper) = 0 THEN n = 0 ELSE n % Len(mapper) = 0

\* the letters and parameter values that were serialized for the d text
SerializedStructure(d, viewBox, variant) ==
    LET ms == CommandMatches(d, variant)
    IN  [c \in 1..Len(ms) |->
            LET mapper == PATH_COMMAND_MAPPERS(variant)[toLocaleLowerCase(ms[c].command)]
                params == parseParams(ms[c].params, variant)
            IN  [command |-> ms[c].command,
                 params |-> [i \in 1..Len(params) |->
                                scaleParam(params[i], MapperSlot(mapper, i - 1), viewBox, variant)]]]

\* the letters and parameter values the tokenizer reads back from a path text
ParsedStructure(text, variant) ==
    LET ms == CommandMatches(text, variant)
    IN  [c \in 1..Len(ms) |->
            [command |-> ms[c].command, params |-> parseParams(ms[c].params, variant)]]

\* C6: an emitted path string re-tokenizes to the command letters and parameter
\* values that were serialized, and processing it again under viewBox
\* (0,0,24,24) reproduces it.
C6_SerializationRoundTrip ==
    (FileSinglePath /\ file.pc = "logged" /\ file.paths[1] # <<>>) =>
        LET P == file.paths[1]
            again == FileBody(Doc(TargetViewBoxText, <<PathElem(P)>>), file.variant)
        IN  /\ ParsedStructure(P, file.variant) = SerializedStructure(FileD, FileViewBox, file.variant)
            /\ again.ok
            /\ again.paths = <<P>>

----------------------------------------------------------------------------
(* Claims about polygons, circles and the record *)

Num(n) == NumberToString(n)

ExamplePolygonPoints ==
    <<"0", ",", "0", " ", "2", "4", ",", "0", " ", "2", "4", ",", "2", "4", " ", "0", ",", "2", "4">>

ExamplePolygonPath ==
    <<"M", "0", ",", "0", " ", "L", "2", "4", ",", "0", ",", "2", "4", ",", "2", "4", ",", "0", ",", "2", "4", " ", "Z">>

\* `M<first point> L<all remaining numbers, comma-joined> Z` of the numbers
\* raw, scaled on x at even and on y at odd zero-based index
PolygonPathText(raw, viewBox, variant) ==
    LET sc(i) == scaleParam(raw[i], IF i % 2 = 1 THEN "x" ELSE "y", viewBox, variant)
    IN  <<"M">> \o Num(sc(1)) \o <<",">> \o Num(sc(2)) \o <<" ", "L">>
            \o Join([i \in 1..(Len(raw) - 2) |-> Num(sc(i + 2))], <<",">>) \o <<" ", "Z">>

\* C8: a polygon of n numbers fails with the invalid-polygon error iff n < 4 or
\* n is odd; otherwise it serializes as M<first point> L<the rest> Z, the
\* numbers scaled alternately on x and y; the example square in viewBox
\* (0,0,24,24) gives `M0,0 L24,0,24,24,0,24 Z`.
C8_PolygonConversion ==
    (FileSingle("polygon") /\ HasAttrib(file.doc.shapes[1], "points")
        /\ file.pc # "start" /\ FileViewBoxOk) =>
        LET text == getAttribute(file.doc.shapes[1], "points")
            raw == parseParams(text, file.variant)
            n == Len(raw)
        IN  IF n < 4 \/ n % 2 = 1
            THEN file.pc = "thrown" /\ file.err = "unexpected points length"
            ELSE /\ file.pc = "logged"
                 /\ file.paths = <<PolygonPathText(raw, FileViewBox, file.variant)>>
                 /\ (text = ExamplePolygonPoints /\ file.doc.svg = SvgElem(TargetViewBoxText)) =>
                        file.paths = <<ExamplePolygonPath>>

\* C8 witness: the example square was converted in viewBox (0,0,24,24)
C8_Witness ==
    /\ FileSingle("polygon") /\ file.pc = "logged" /\ file.variant = "index"
    /\ getAttribute(file.doc.shapes[1], "points") = ExamplePolygonPoints
    /\ file.doc.svg = SvgElem(TargetViewBoxText)
    /\ file.paths = <<ExamplePolygonPath>>

\* C8 witness of the smallest polygon: exactly two points are accepted
C8_WitnessTwoPoints ==
    /\ FileSingle("polygon") /\ file.pc = "logged"
    /\ HasAttrib(file.doc.shapes[1], "points")
    /\ Len(parseParams(getAttribute(file.doc.shapes[1], "points"), file.variant)) = 4

ExampleCirclePath ==
    <<"M", "1", "2", ",", "6", " ", "A", "6", ",", "6", ",", "0", ",", "1", ",", "0", ",",
      "1", "2", ".", "0", "0", "1", ",", "6", " ", "Z">>

\* C9: a circle with cx, cy and r serializes as the three tokens M<cx'>,<cy'-r'>,
\* A<r'>,<r'>,0,1,0,<cx'+0.001>,<cy'-r'> and Z joined by single spaces; cx=12,
\* cy=12, r=6 in viewBox (0,0,24,24) gives `M12,6 A6,6,0,1,0,12.001,6 Z`; a
\* circle that lacks one of the three fails with the missing-attribute error.
C9_CircleConversion ==
    (FileSingle("circle") /\ file.pc # "start" /\ FileViewBoxOk) =>
        LET elem == file.doc.shapes[1]
        IN  IF {"cx", "cy", "r"} \subseteq DOMAIN elem.attrs
            THEN LET cx == scaleParam(parseFloat(elem.attrs["cx"]), "x", FileViewBox, file.variant)
                     cy == scaleParam(parseFloat(elem.attrs["cy"]), "y", FileViewBox, file.variant)
                     r == scaleParam(parseFloat(elem.attrs["r"]), "min", FileViewBox, file.variant)
                     top == NumSub(cy, r)
                 IN  /\ file.pc = "logged"
                     /\ file.paths =
                          << <<"M">> \o Num(cx) \o <<",">> \o Num(top) \o <<" ", "A">>
                               \o Num(r) \o <<",">> \o Num(r) \o <<",", "0", ",", "1", ",", "0", ",">>
                               \o Num(NumAdd(cx, 1)) \o <<",">> \o Num(top) \o <<" ", "Z">> >>
                     /\ (elem.attrs = [a \in {"cx", "cy", "r"} |-> IF a = "r" THEN <<"6">> ELSE <<"1", "2">>]
                            /\ file.doc.svg = SvgElem(TargetViewBoxText)) =>
                            file.paths = <<ExampleCirclePath>>
            ELSE file.pc = "thrown" /\ file.err = "attrib does not exist on circle"

\* C9 witness: the example circle was converted in viewBox (0,0,24,24)
C9_Witness ==
    /\ FileSingle("circle") /\ file.pc = "logged" /\ file.variant = "index"
    /\ file.doc.svg = SvgElem(TargetViewBoxText)
    /\ file.paths = <<ExampleCirclePath>>

\* the path string of the i-th element of the document, on its own
ShapePathText(i) ==
    Join(Shape(file.doc.shapes[i], FileViewBox, file.variant).remappedPath, <<" ">>)

ConcatRule ==
    file.concat = IF Len(file.paths) <= 1 THEN Null ELSE Join(file.paths, <<" ">>)

\* C10 as stated: paths lists the shapes of the file in document order, and
\* concat is null for at most one path and the space-joined paths otherwise.
C10_PathsInDocumentOrder ==
    file.pc = "logged" =>
        /\ Len(file.paths) = Len(file.doc.shapes)
        /\ \A i \in 1..Len(file.paths) : file.paths[i] = ShapePathText(i)
        /\ ConcatRule

TagRank(tagName) == CHOOSE t \in 1..Len(SHAPE_TAGS) : SHAPE_TAGS[t] = tagName

\* the positions of the shapes ordered by kind (path, circle, ..., polygon) and,
\* within a kind, by position in the document
KindMajorOrder(shapes) ==
    LET n == Len(shapes)
    IN  CHOOSE f \in [1..n -> 1..n] :
            \A i, j \in 1..n :
                i < j =>
                    \/ TagRank(shapes[f[i]].tagName) < TagRank(shapes[f[j]].tagName)
                    \/ /\ TagRank(shapes[f[i]].tagName) = TagRank(shapes[f[j]].tagName)
                       /\ f[i] < f[j]

\* C10 amended: paths lists the shapes kind by kind in the order path, circle,
\* polygon, and in document order within a kind; concat is null for at most
\* one path and the space-joined paths, in that same order, otherwise.
C10_PathsInKindMajorOrder ==
    file.pc = "logged" =>
        LET f == KindMajorOrder(file.doc.shapes)
        IN  /\ Len(file.paths) = Len(file.doc.shapes)
            /\ \A i \in 1..Len(file.paths) : file.paths[i] = ShapePathText(f[i])
            /\ ConcatRule

\* C10 witness: a document of a circle, a path and a polygon, in that order
C10_Witness ==
    /\ file.pc = "logged"
    /\ Len(file.doc.shapes) = 3
    /\ file.doc.shapes[1].tagName = "circle"
    /\ file.doc.shapes[2].tagName = "path"
    /\ file.doc.shapes[3].tagName = "polygon"
    /\ file.paths = <<ShapePathText(2), ShapePathText(1), ShapePathText(3)>>
    /\ file.concat # Null

----------------------------------------------------------------------------
(* Claims about the directory run *)

\* the files the loop has gone through: all before fileIdx, and the one at
\* fileIdx too once it has failed
FilesDone == IF pc = "halted" THEN fileIdx ELSE fileIdx - 1

RECURSIVE NotSkipped(_)
NotSkipped(paths) ==
    IF Len(paths) = 0 THEN <<>>
    ELSE (IF paths[1] \in SKIPS THEN <<>> ELSE <<paths[1]>>) \o NotSkipped(Tail(paths))

\* C7: in a directory run the files are processed one at a time in ascending
\* order of their paths; the first file that fails halts the run, its error
\* logged with its path, without a record for it and without any later file
\* being read; every non-skipped file before it has emitted exactly one
\* record, in that order.
C7_SortedRunHaltsAtFirstFailure ==
    pc \in {"loop", "done", "halted"} =>
        LET done == NotSkipped(SubSeq(filePaths, 1, FilesDone))
            passed == IF pc = "halted" THEN SubSeq(done, 1, Len(done) - 1) ELSE done
        IN  /\ \A i \in 1..(Len(filePaths) - 1) : PathLess(filePaths[i], filePaths[i + 1])
            /\ {filePaths[i] : i \in 1..Len(filePaths)}
                  = {JoinPath(e.name) : e \in {x \in dirEntries : x.isFile /\ EndsWithSvg(x.name)}}
            /\ reads = done
            /\ Len(stdout) = Len(passed)
            /\ \A i \in 1..Len(passed) :
                  /\ stdout[i].iconName = IconName(passed[i])
                  /\ FileBody(contents[passed[i]], "index").ok
                  /\ stdout[i].paths = FileBody(contents[passed[i]], "index").paths
            /\ IF pc = "halted"
               THEN /\ ~FileBody(contents[filePaths[fileIdx]], "index").ok
                    /\ stderr = <<<<filePaths[fileIdx], FileBody(contents[filePaths[fileIdx]], "index").err>>>>
               ELSE stderr = <<>>
            /\ pc = "done" => fileIdx = Len(filePaths) + 1

\* C7 witness: the run halted at a failing file that was neither the first nor
\* the last of the sorted list, after a record for an earlier file
C7_Witness ==
    /\ pc = "halted"
    /\ fileIdx > 1
    /\ fileIdx < Len(filePaths)
    /\ Len(stdout) >= 1
    /\ Len(stderr) = 1

----------------------------------------------------------------------------
(* Claims about relative commands *)

\* the d attribute is an absolute moveto and a relative lineto of two numbers
\* each, `M a,b l dx,dy`
IsMoveThenRelativeLine(structure) ==
    /\ Len(structure) = 2
    /\ structure[1].command = "M" /\ Len(structure[1].params) = 2
    /\ structure[2].command = "l" /\ Len(structure[2].params) = 2
    /\ \A c \in 1..2 : \A i \in 1..2 : structure[c].params[i] # NaN

\* a record emitted in centering mode for a sole path `M a,b l dx,dy`
FileRelativeLineCase ==
    /\ FileSinglePath
    /\ file.pc = "logged"
    /\ file.variant = "index"
    /\ IsMoveThenRelativeLine(ParsedStructure(FileD, "index"))
    /\ FileViewBox.w > 0 /\ FileViewBox.h > 0

\* the end point of the emitted path is the scaled image of the end point of
\* the source path, within 0.002 on both axes
EndPointIsScaledEndPoint(source, output, viewBox) ==
    /\ IsMoveThenRelativeLine(output)
    /\ \A i \in 1..2 :
          Abs((output[1].params[i] + output[2].params[i])
                - scaleParam(source[1].params[i] + source[2].params[i],
                             IF i = 1 THEN "x" ELSE "y", viewBox, "index")) <= 2

\* C12: centering-mode scaling keeps the geometry of relative commands: for a
\* source path `M a,b l dx,dy` in any viewBox, the end point of the emitted
\* path (the M point plus the l delta) is the scaled image of the source end
\* point (a+dx, b+dy) within 0.002, the delta having received the pure scale
\* factor 24/longest with no offset subtraction and no centering shift.
C12_RelativeEndPointPreserved ==
    FileRelativeLineCase =>
        EndPointIsScaledEndPoint(ParsedStructure(FileD, "index"),
                                 ParsedStructure(file.paths[1], "index"), FileViewBox)

====
